---- MODULE Spec2Model ----
(***************************************************************************)
(* A model of mastoBot: the MastoBot poll loop (run / notificationRefresher*)
(* / _process_notifications), the handleMastodonExceptions decorator, and  *)
(* the handlers of the example bot MyBot, against a remote service that    *)
(* holds the pending notifications and may fail any call.                  *)
(***************************************************************************)
EXTENDS Integers, Sequences, FiniteSets, TLC

\* Bounds of the model.
MaxEvents == 2      \* notifications the remote service creates in one behaviour
MaxMedia == 2       \* media attachments of a status

(***************************************************************************)
(* Exceptions and results                                                  *)
(***************************************************************************)

\* Python's None, and the marker of a call that raised nothing.
None == "None"
NoExc == "none"

\* The exception classes handleMastodonExceptions names in its except clauses.
KnownCategories ==
    { "MastodonServerError", "MastodonIllegalArgumentError",
      "MastodonFileNotFoundError", "MastodonNetworkError", "MastodonAPIError",
      "MastodonMalformedEventError", "MastodonRatelimitError",
      "MastodonVersionError" }

\* What a call into Mastodon.py can end with: normally, with one of the
\* library's exception classes, or with an exception none of the except
\* clauses of the decorator names before `except Exception`.
RemoteOutcomes == {NoExc} \cup KnownCategories \cup {"Exception"}

\* The outcome of a Python call: the exception that left it (NoExc if it
\* returned) and the value it returned.
Returned(val) == [exc |-> NoExc, val |-> val]
Raised(exc) == [exc |-> exc, val |-> None]

\* A raw call of self._api: returns val or raises the outcome o.
ApiCall(o, val) == IF o = NoExc THEN Returned(val) ELSE Raised(o)

\* wrapper() of handleMastodonExceptions around a synchronous function whose
\* body ended as r: the eight named classes are logged and the wrapper falls
\* off its end (None); anything else reaches `except Exception` and is raised
\* again; a body that returned has its result returned.
handleMastodonExceptions(r) ==
    IF r.exc = NoExc THEN r
    ELSE IF r.exc \in KnownCategories THEN Returned(None)
    ELSE Raised(r.exc)

\* wrapper() around an `async def`: func(self, ...) only creates the coroutine
\* object and returns it, so the try block is left before the body runs; the
\* body's outcome r is what the `await` of that coroutine produces.
awaitDecoratedCoroutine(r) == r

(***************************************************************************)
(* Notifications and configuration                                         *)
(***************************************************************************)

\* The notification types _process_notifications has a case for, and one the
\* match statement sends to `case _`.
KnownTypes ==
    {"mention", "reblog", "favourite", "follow", "poll", "follow_request", "update"}
UnknownType == "unsupported_type"
NotificationTypes == KnownTypes \cup {UnknownType}

\* The method each case of the match statement calls.
HandlerOf(type) ==
    CASE type = "mention" -> "processMention"
      [] type = "reblog" -> "processReblog"
      [] type = "favourite" -> "processFavourite"
      [] type = "follow" -> "processFollow"
      [] type = "poll" -> "processPoll"
      [] type = "follow_request" -> "processFollowRequest"
      [] type = "update" -> "processUpdate"
      [] OTHER -> "none"

NoEvent == [id |-> 0, type |-> "none"]

\* The sections of config.yml MyBot.shouldReblog / shouldFavorite read, in two
\* settings: boost the parent statuses of followers and favourite everything,
\* and the reverse.
FollowersParents == [parents |-> TRUE, children |-> FALSE, followers_only |-> TRUE]
Everything == [parents |-> TRUE, children |-> TRUE, followers_only |-> FALSE]
Configs ==
    { [boosts |-> FollowersParents, favorites |-> Everything],
      [boosts |-> Everything, favorites |-> FollowersParents] }

\* What template loading and rendering can end with.
TemplateOutcomes == {NoExc, "TemplateNotFound"}

VARIABLES
    inbox,          \* remote: the pending notifications, in the order a fetch returns them
    nextId,         \* remote: id of the next notification created
    config,         \* self.config
    pc,             \* where run() is: "fetch", "dispatch", "sleep" or "terminated"
    runExc,         \* the exception that left run(), NoExc while it runs
    notifications,  \* run(): the list the last fetch returned
    idx,            \* _process_notifications: position of the for loop in the list
    frame,          \* the handler call in progress, NoFrame between events
    lastFetched,    \* history: the list the remote service returned to the last fetch
    invoked,        \* history: the handler calls made for the current batch
    failed,         \* history: positions of the batch whose handler body raised
    fetched,        \* history: ids of the notifications some fetch has returned
    refetched,      \* history: ids of the current batch that an earlier fetch returned too
    dismissFailed,  \* history: ids for which a notifications_dismiss call raised
    crashSite,      \* history: the statement of run() the exception left from
    store,          \* self.r: the JSON documents of the Redis store, by physical key
    decision,       \* the last decision of the policy functions, with its inputs
    storeCall,      \* the last call of a localStore method, with its outcome
    listing,        \* the localStoreKeyGetAll / localStoreObjectGetAll call in progress
    mergers,        \* the localStoreMerge calls of two processes, by process
    lastCall        \* the last call observed at the boundary of a method

remoteVars == <<inbox, nextId>>
loopVars == <<pc, runExc, notifications, idx, lastFetched>>
histVars == <<invoked, failed, fetched, refetched, dismissFailed, crashSite>>
vars == <<inbox, nextId, config, pc, runExc, notifications, idx, frame, lastFetched,
          invoked, failed, fetched, refetched, dismissFailed, crashSite, store,
          decision, storeCall, listing, mergers, lastCall>>

\* The locals of a handler call: the method, the statement it is at, the
\* notification, the values read so far, and the remote writes it has made.
NoFrame ==
    [op |-> "none", pc |-> "none", ev |-> NoEvent, policy |-> "none",
     isParentStatus |-> None, api_account |-> None, api_status |-> None,
     writes |-> {}]

\* A call as seen at the boundary of a method: the method, its arguments, what
\* its body ended with and what its caller got.
NoArg == [id |-> 0]
NoCall ==
    [op |-> "none", async |-> FALSE, arg |-> NoArg, body |-> Returned(None),
     out |-> Returned(None)]

\* No decision made yet, and the store of a fresh Redis database.
NoDecision == [op |-> "none"]
EmptyStore == [k \in {} |-> None]
NoStoreCall == [op |-> "none"]
NoListing == [pc |-> "idle"]
NoMergers == [p \in {} |-> None]

\* The state of a bot just constructed, but for its configuration and the
\* content of the Redis database it connects to.
InitBotButStore ==
    /\ inbox = <<>>
    /\ nextId = 1
    /\ pc = "fetch"
    /\ runExc = NoExc
    /\ notifications = <<>>
    /\ idx = 1
    /\ frame = NoFrame
    /\ lastFetched = <<>>
    /\ invoked = <<>>
    /\ failed = {}
    /\ fetched = {}
    /\ refetched = {}
    /\ dismissFailed = {}
    /\ crashSite = "none"
    /\ decision = NoDecision
    /\ storeCall = NoStoreCall
    /\ listing = NoListing
    /\ mergers = NoMergers
    /\ lastCall = NoCall

\* The state of a bot just constructed on a fresh database, but for its
\* configuration.
InitBot == store = EmptyStore /\ InitBotButStore

\* MyBot constructed with a config.yml that has the sections MyBot reads.
Init == config \in Configs /\ InitBot

(***************************************************************************)
(* The remote service                                                      *)
(***************************************************************************)

\* The ids of the notifications in a list.
IdsOf(seq) == {seq[k].id : k \in 1..Len(seq)}

\* The notifications created so far that are no longer pending.
Dismissed == (1..(nextId - 1)) \ IdsOf(inbox)

\* A notification is created; the service lists the newest first.  The bot
\* sees the pending notifications only when it fetches, so those created
\* since its last fetch are taken here, before the next one.
Arrive ==
    /\ nextId <= MaxEvents
    /\ pc = "fetch"
    /\ \E type \in NotificationTypes :
          inbox' = <<[id |-> nextId, type |-> type]>> \o inbox
    /\ nextId' = nextId + 1
    /\ UNCHANGED <<config, store, decision, storeCall, listing, mergers, frame, lastCall>>
    /\ UNCHANGED loopVars
    /\ UNCHANGED histVars

\* The pending notifications without the one of this id.
Without(seq, id) == SelectSeq(seq, LAMBDA e : e.id # id)

(***************************************************************************)
(* The wrapped calls of MastoBot                                           *)
(***************************************************************************)

\* getStatus, getAccount: the decorated call of self._api.status / account.
getStatus(o) == handleMastodonExceptions(ApiCall(o, "status"))
getAccount(o) == handleMastodonExceptions(ApiCall(o, "account"))

\* dismissNotification as it would be without @handleMastodonExceptions.
dismissNotificationUndecorated(o) == ApiCall(o, None)

\* dismissNotification, reblogStatus, favoriteStatus: the inner try logs and
\* raises again whatever the API call raised, under the decorator.
dismissNotification(o) == handleMastodonExceptions(ApiCall(o, None))
reblogStatus(o) == handleMastodonExceptions(ApiCall(o, None))
favoriteStatus(o) == handleMastodonExceptions(ApiCall(o, None))

\* Python truth of a value these calls return.
Truthy(v) == v = "True"
PyBool(b) == IF b THEN "True" ELSE "False"

\* MyBot.isParentStatus: a status suppressed to None has no .get.
isParentStatus(o, reply) ==
    handleMastodonExceptions(
        LET api_status == getStatus(o)
        IN  IF api_status.exc # NoExc THEN Raised(api_status.exc)
            ELSE IF api_status.val = None THEN Raised("AttributeError")
            ELSE Returned(PyBool(~reply)))

\* MyBot.isByFollower: getStatus, then the raw account_relationships call.
isByFollower(o, orel, followed_by) ==
    handleMastodonExceptions(
        LET api_mention == getStatus(o)
        IN  IF api_mention.exc # NoExc THEN Raised(api_mention.exc)
            ELSE IF api_mention.val = None THEN Raised("AttributeError")
            ELSE ApiCall(orel, PyBool(followed_by)))

\* The decision of MyBot.shouldReblog / shouldFavorite once both reads returned.
Decision(section, isParent, byFollower) ==
    IF Truthy(isParent) /\ section.parents
    THEN (IF section.followers_only THEN byFollower ELSE "True")
    ELSE IF ~Truthy(isParent) /\ section.children
    THEN (IF section.followers_only THEN byFollower ELSE "True")
    ELSE "False"

\* MyBot.shouldReblog / shouldFavorite under the decorator, from the outcomes
\* of its two reads: an exception of either leaves it, else the decision.
should(section, parent, follower) ==
    handleMastodonExceptions(
        IF parent.exc # NoExc THEN Raised(parent.exc)
        ELSE IF follower.exc # NoExc THEN Raised(follower.exc)
        ELSE Returned(Decision(section, parent.val, follower.val)))

(***************************************************************************)
(* run(): fetch, dispatch, sleep                                           *)
(***************************************************************************)

\* notificationRefresher's body: the raw notifications() call, then len() of it.
notificationRefresher(o, pending) == awaitDecoratedCoroutine(ApiCall(o, pending))

\* `notifications = await self.notificationRefresher()`.  An exception leaves
\* the await and, run() being a coroutine too, leaves run().
Fetch ==
    /\ \E o \in RemoteOutcomes :
          LET r == notificationRefresher(o, inbox)
          IN  IF r.exc = NoExc
              THEN /\ notifications' = r.val
                   /\ lastFetched' = inbox
                   /\ idx' = 1
                   /\ pc' = "dispatch"
                   /\ fetched' = fetched \cup IdsOf(inbox)
                   /\ refetched' = fetched \cap IdsOf(inbox)
                   /\ UNCHANGED <<runExc, crashSite>>
              ELSE /\ pc' = "terminated"
                   /\ runExc' = r.exc
                   /\ crashSite' = "fetch"
                   /\ UNCHANGED <<notifications, lastFetched, idx, fetched, refetched>>
    /\ UNCHANGED <<frame, config, store, decision, storeCall, listing, mergers, invoked, failed, dismissFailed, lastCall>>
    /\ UNCHANGED remoteVars

\* A run() that does not wait for the dispatch before it fetches again, as if
\* the dispatch were started as a background task.
RunFetchOverlapping == pc \in {"fetch", "dispatch"} /\ Fetch

\* The fetch is the first statement of an iteration of `while True`.
RunFetch == pc = "fetch" /\ Fetch

\* `await asyncio.sleep(10)`, then the next iteration of `while True`.  The
\* record of the handler calls of the batch ends with the iteration.
RunSleep ==
    /\ pc = "sleep"
    /\ pc' = "fetch"
    /\ invoked' = <<>>
    /\ failed' = {}
    /\ UNCHANGED <<runExc, notifications, idx, lastFetched, frame>>
    /\ UNCHANGED <<config, store, decision, storeCall, listing, mergers, lastCall>>
    /\ UNCHANGED <<fetched, refetched, dismissFailed, crashSite>>
    /\ UNCHANGED remoteVars

(***************************************************************************)
(* _process_notifications                                                  *)
(***************************************************************************)

\* The first statement each handler of MyBot runs.
EntryOf(handler) ==
    CASE handler = "processMention" -> "getStatus"
      [] handler = "processFollow" -> "getAccount"
      [] handler = "processUpdate" -> "pass"
      [] OTHER -> "dismissNotification"

\* One turn of the for loop: the match on notification.get("type") calls the
\* handler of the type, or logs a warning in `case _` and goes on.
Route ==
    /\ pc = "dispatch"
    /\ frame = NoFrame
    /\ idx <= Len(notifications)
    /\ LET n == notifications[idx]
       IN  IF n.type \in KnownTypes
           THEN /\ frame' = [NoFrame EXCEPT !.op = HandlerOf(n.type),
                                            !.pc = EntryOf(HandlerOf(n.type)),
                                            !.ev = n]
                /\ invoked' = Append(invoked,
                                     [pos |-> idx, handler |-> HandlerOf(n.type), id |-> n.id])
                /\ idx' = idx
           ELSE /\ idx' = idx + 1
                /\ UNCHANGED <<frame, invoked>>
    /\ UNCHANGED <<pc, runExc, notifications, lastFetched, config, store, decision, storeCall, listing, mergers, lastCall>>
    /\ UNCHANGED <<failed, fetched, refetched, dismissFailed, crashSite>>
    /\ UNCHANGED remoteVars

\* The for loop is exhausted: _process_notifications returns None to run().
LoopEnd ==
    /\ pc = "dispatch"
    /\ frame = NoFrame
    /\ idx > Len(notifications)
    /\ pc' = "sleep"
    /\ UNCHANGED <<runExc, notifications, idx, lastFetched, frame>>
    /\ UNCHANGED <<config, store, decision, storeCall, listing, mergers, lastCall>>
    /\ UNCHANGED remoteVars
    /\ UNCHANGED histVars

\* What _process_notifications does with the outcome h of the handler call it
\* made: go on with the next notification, or leave the loop with the
\* exception, which its own decorator suppresses or raises into run().
AfterHandler(h) ==
    IF h.exc = NoExc
    THEN /\ idx' = idx + 1
         /\ UNCHANGED <<pc, runExc, crashSite>>
    ELSE LET p == handleMastodonExceptions(Raised(h.exc))
         IN  IF p.exc = NoExc
             THEN /\ pc' = "sleep"
                  /\ UNCHANGED <<idx, runExc, crashSite>>
             ELSE /\ pc' = "terminated"
                  /\ runExc' = p.exc
                  /\ crashSite' = "dispatch"
                  /\ UNCHANGED idx

\* The handler in progress ends: its body returned or raised `body`, the
\* decorator every handler of MyBot carries turns that into the call's outcome.
HandlerExit(body) ==
    /\ frame' = NoFrame
    /\ failed' = IF body.exc # NoExc THEN failed \cup {idx} ELSE failed
    /\ AfterHandler(handleMastodonExceptions(body))

\* The handler in progress goes on as the frame `next`.
HandlerGoto(next) ==
    /\ frame' = next
    /\ UNCHANGED <<idx, pc, runExc, crashSite, failed>>

(***************************************************************************)
(* The handlers of MyBot                                                   *)
(***************************************************************************)

\* processUpdate: pass.
ProcessUpdate ==
    /\ frame.op = "processUpdate"
    /\ frame.pc = "pass"
    /\ HandlerExit(Returned(None))
    /\ UNCHANGED <<notifications, lastFetched, config, store, decision, storeCall, listing, mergers, lastCall>>
    /\ UNCHANGED <<invoked, fetched, refetched, dismissFailed>>
    /\ UNCHANGED remoteVars

\* A dismissal that is tried again when the remote call fails: the handler
\* stays at the statement.
DismissNotificationRetrying ==
    /\ frame.pc = "dismissNotification"
    /\ \E o \in RemoteOutcomes :
          IF o = NoExc
          THEN /\ inbox' = Without(inbox, frame.ev.id)
               /\ UNCHANGED dismissFailed
               /\ HandlerExit(Returned(None))
          ELSE /\ dismissFailed' = dismissFailed \cup {frame.ev.id}
               /\ UNCHANGED inbox
               /\ HandlerGoto([frame EXCEPT !.pc = "dismissNotification.retry"])
    /\ UNCHANGED <<nextId, notifications, lastFetched, config, store, decision, storeCall, listing, mergers, lastCall>>
    /\ UNCHANGED <<invoked, fetched, refetched>>

\* self.dismissNotification(n.get("id")), the last statement of every handler
\* but processUpdate.
DismissNotification ==
    /\ frame.pc = "dismissNotification"
    /\ \E o \in RemoteOutcomes :
          LET r == dismissNotification(o)
          IN  /\ IF o = NoExc
                 THEN /\ inbox' = Without(inbox, frame.ev.id)
                      /\ UNCHANGED dismissFailed
                 ELSE /\ dismissFailed' = dismissFailed \cup {frame.ev.id}
                      /\ UNCHANGED inbox
              /\ HandlerExit(IF r.exc = NoExc THEN Returned(None) ELSE Raised(r.exc))
    /\ UNCHANGED <<nextId, notifications, lastFetched, config, store, decision, storeCall, listing, mergers, lastCall>>
    /\ UNCHANGED <<invoked, fetched, refetched>>

\* processFollow: api_account = self.getAccount(...); api_account.get("acct").
FollowGetAccount ==
    /\ frame.op = "processFollow"
    /\ frame.pc = "getAccount"
    /\ \E o \in RemoteOutcomes :
          LET r == getAccount(o)
          IN  IF r.exc # NoExc THEN HandlerExit(Raised(r.exc))
              ELSE IF r.val = None THEN HandlerExit(Raised("AttributeError"))
              ELSE HandlerGoto([frame EXCEPT !.pc = "template", !.api_account = r.val])
    /\ UNCHANGED <<notifications, lastFetched, config, store, decision, storeCall, listing, mergers, lastCall>>
    /\ UNCHANGED <<invoked, fetched, refetched, dismissFailed>>
    /\ UNCHANGED remoteVars

\* The try block that loads and renders the template: processFollow renders
\* new_follow.txt; processMention renders report.txt from api_account and
\* api_status, either of which may be None.  `raise e` on any exception.
RenderTemplate ==
    /\ frame.pc = "template"
    /\ \E t \in TemplateOutcomes :
          IF t # NoExc THEN HandlerExit(Raised(t))
          ELSE IF frame.op = "processMention"
                  /\ (frame.api_account = None \/ frame.api_status = None)
          THEN HandlerExit(Raised("AttributeError"))
          ELSE HandlerGoto([frame EXCEPT !.pc = "status_post"])
    /\ UNCHANGED <<notifications, lastFetched, config, store, decision, storeCall, listing, mergers, lastCall>>
    /\ UNCHANGED <<invoked, fetched, refetched, dismissFailed>>
    /\ UNCHANGED remoteVars

\* self._api.status_post(status=output, visibility="direct"), not decorated:
\* `raise e` on any exception.
StatusPost ==
    /\ frame.pc = "status_post"
    /\ \E o \in RemoteOutcomes :
          LET r == ApiCall(o, None)
          IN  IF r.exc # NoExc
              THEN HandlerExit(Raised(r.exc))
              ELSE HandlerGoto([frame EXCEPT !.pc = "dismissNotification",
                                             !.writes = @ \cup {"status_post"}])
    /\ UNCHANGED <<notifications, lastFetched, config, store, decision, storeCall, listing, mergers, lastCall>>
    /\ UNCHANGED <<invoked, fetched, refetched, dismissFailed>>
    /\ UNCHANGED remoteVars

\* processMention: content = self.getStatus(...).get("content"), then the
\* search for the $report tag in it.
MentionGetStatus ==
    /\ frame.op = "processMention"
    /\ frame.pc = "getStatus"
    /\ \E o \in RemoteOutcomes, report_match \in BOOLEAN :
          LET r == getStatus(o)
          IN  IF r.exc # NoExc THEN HandlerExit(Raised(r.exc))
              ELSE IF r.val = None THEN HandlerExit(Raised("AttributeError"))
              ELSE IF report_match
              THEN HandlerGoto([frame EXCEPT !.pc = "getAccount"])
              ELSE HandlerGoto([frame EXCEPT !.pc = "isParentStatus", !.policy = "boosts"])
    /\ UNCHANGED <<notifications, lastFetched, config, store, decision, storeCall, listing, mergers, lastCall>>
    /\ UNCHANGED <<invoked, fetched, refetched, dismissFailed>>
    /\ UNCHANGED remoteVars

\* The report branch: api_account = self.getAccount(mention.get("account")).
MentionGetAccount ==
    /\ frame.op = "processMention"
    /\ frame.pc = "getAccount"
    /\ \E o \in RemoteOutcomes :
          LET r == getAccount(o)
          IN  IF r.exc # NoExc THEN HandlerExit(Raised(r.exc))
              ELSE HandlerGoto([frame EXCEPT !.pc = "getStatus2", !.api_account = r.val])
    /\ UNCHANGED <<notifications, lastFetched, config, store, decision, storeCall, listing, mergers, lastCall>>
    /\ UNCHANGED <<invoked, fetched, refetched, dismissFailed>>
    /\ UNCHANGED remoteVars

\* The report branch: api_status = self.getStatus(mention.get("status")).
MentionGetStatus2 ==
    /\ frame.op = "processMention"
    /\ frame.pc = "getStatus2"
    /\ \E o \in RemoteOutcomes :
          LET r == getStatus(o)
          IN  IF r.exc # NoExc THEN HandlerExit(Raised(r.exc))
              ELSE HandlerGoto([frame EXCEPT !.pc = "template", !.api_status = r.val])
    /\ UNCHANGED <<notifications, lastFetched, config, store, decision, storeCall, listing, mergers, lastCall>>
    /\ UNCHANGED <<invoked, fetched, refetched, dismissFailed>>
    /\ UNCHANGED remoteVars

\* The statement of processMention after the decision on f.policy.
AfterPolicy(f) ==
    IF f.policy = "boosts"
    THEN [f EXCEPT !.pc = "isParentStatus", !.policy = "favorites", !.isParentStatus = None]
    ELSE [f EXCEPT !.pc = "dismissNotification", !.policy = "none", !.isParentStatus = None]

\* shouldReblog / shouldFavorite, first statement: self.isParentStatus(status_id).
ShouldIsParentStatus ==
    /\ frame.op = "processMention"
    /\ frame.pc = "isParentStatus"
    /\ \E o \in RemoteOutcomes, reply \in BOOLEAN :
          LET parent == isParentStatus(o, reply)
              r == should(config[frame.policy], parent, Returned(None))
          IN  IF parent.exc # NoExc THEN HandlerExit(Raised(r.exc))
              ELSE HandlerGoto([frame EXCEPT !.pc = "isByFollower",
                                             !.isParentStatus = parent.val])
    /\ UNCHANGED <<notifications, lastFetched, config, store, decision, storeCall, listing, mergers, lastCall>>
    /\ UNCHANGED <<invoked, fetched, refetched, dismissFailed>>
    /\ UNCHANGED remoteVars

\* shouldReblog / shouldFavorite, second statement: self.isByFollower(status_id),
\* up to its getStatus call; an exception there leaves every caller.
ShouldIsByFollower ==
    /\ frame.op = "processMention"
    /\ frame.pc = "isByFollower"
    /\ \E o \in RemoteOutcomes :
          LET follower == isByFollower(o, NoExc, FALSE)
              r == should(config[frame.policy], Returned(frame.isParentStatus), follower)
          IN  IF getStatus(o).exc # NoExc \/ getStatus(o).val = None
              THEN HandlerExit(Raised(r.exc))
              ELSE HandlerGoto([frame EXCEPT !.pc = "account_relationships"])
    /\ UNCHANGED <<notifications, lastFetched, config, store, decision, storeCall, listing, mergers, lastCall>>
    /\ UNCHANGED <<invoked, fetched, refetched, dismissFailed>>
    /\ UNCHANGED remoteVars

\* isByFollower after its getStatus returned a status: the account_relationships
\* call; then the configuration section and the decision of shouldReblog /
\* shouldFavorite, and the `if` of processMention on it.
ShouldDecide ==
    /\ frame.op = "processMention"
    /\ frame.pc = "account_relationships"
    /\ \E orel \in RemoteOutcomes, followed_by \in BOOLEAN :
          LET follower == isByFollower(NoExc, orel, followed_by)
              r == should(config[frame.policy], Returned(frame.isParentStatus), follower)
          IN  IF r.exc # NoExc THEN HandlerExit(Raised(r.exc))
              ELSE IF Truthy(r.val) THEN HandlerGoto([frame EXCEPT !.pc = "act"])
              ELSE HandlerGoto(AfterPolicy(frame))
    /\ UNCHANGED <<notifications, lastFetched, config, store, decision, storeCall, listing, mergers, lastCall>>
    /\ UNCHANGED <<invoked, fetched, refetched, dismissFailed>>
    /\ UNCHANGED remoteVars

\* self.reblogStatus(...) / self.favoriteStatus(...) inside the try of
\* processMention: whatever the call raises is logged by `except Exception`,
\* so the handler goes on in every case; the write is made if the API call
\* returned.
Act ==
    /\ frame.op = "processMention"
    /\ frame.pc = "act"
    /\ \E o \in RemoteOutcomes :
          LET r == IF frame.policy = "boosts" THEN reblogStatus(o) ELSE favoriteStatus(o)
              write == IF frame.policy = "boosts" THEN "status_reblog" ELSE "status_favourite"
              f == IF o = NoExc /\ r.exc = NoExc
                   THEN [frame EXCEPT !.writes = @ \cup {write}] ELSE frame
          IN  HandlerGoto(AfterPolicy(f))
    /\ UNCHANGED <<notifications, lastFetched, config, store, decision, storeCall, listing, mergers, lastCall>>
    /\ UNCHANGED <<invoked, fetched, refetched, dismissFailed>>
    /\ UNCHANGED remoteVars

(***************************************************************************)
(* The specification of the bot                                            *)
(***************************************************************************)

Next ==
    \/ Arrive
    \/ RunFetch
    \/ RunSleep
    \/ Route
    \/ LoopEnd
    \/ ProcessUpdate
    \/ DismissNotification
    \/ FollowGetAccount
    \/ RenderTemplate
    \/ StatusPost
    \/ MentionGetStatus
    \/ MentionGetAccount
    \/ MentionGetStatus2
    \/ ShouldIsParentStatus
    \/ ShouldIsByFollower
    \/ ShouldDecide
    \/ Act

Spec == Init /\ [][Next]_vars

\* The steps of the bot, which the event loop keeps running.
BotNext ==
    \/ RunFetch
    \/ RunSleep
    \/ Route
    \/ LoopEnd
    \/ ProcessUpdate
    \/ DismissNotification
    \/ FollowGetAccount
    \/ RenderTemplate
    \/ StatusPost
    \/ MentionGetStatus
    \/ MentionGetAccount
    \/ MentionGetStatus2
    \/ ShouldIsParentStatus
    \/ ShouldIsByFollower
    \/ ShouldDecide
    \/ Act

\* The bot under an event loop that runs the coroutine whenever it can go on.
SpecFair == Init /\ [][Next]_vars /\ WF_vars(BotNext)

(***************************************************************************)
(* The specification of the exception boundary                             *)
(***************************************************************************)

\* The methods of MastoBot that carry @handleMastodonExceptions.
WrappedAsync == {"run", "notificationRefresher"}
WrappedSync ==
    { "_process_notifications", "getAccount", "getMe", "getStatus",
      "getStatusRebloggedBy", "getStatusFavouritedBy", "getNotifications",
      "getAccountStatuses", "dismissNotification", "reblogStatus", "favoriteStatus",
      "isParentStatus", "isByFollower", "isFollower", "shouldReblog",
      "shouldFavorite", "containsMedia", "containsAltText", "altTextTestPassed" }

\* What the body of a wrapped method can end with: a value returned, or an
\* exception of one of the eight classes or of another class.
BodyOutcomes ==
    {Returned(v) : v \in {None, "True", "False", "status", "account"}}
        \cup {Raised(e) : e \in KnownCategories
                                   \cup {"Exception", "AttributeError", "KeyError",
                                         "TemplateNotFound"}}

\* A call of a decorated method whose body ends as `body`, as its caller sees
\* it (the caller of an async method awaits what the call returned).
Decorated(op, body) ==
    IF op \in WrappedAsync THEN awaitDecoratedCoroutine(body)
    ELSE handleMastodonExceptions(body)

DecoratedCall ==
    /\ \E op \in WrappedSync \cup WrappedAsync, body \in BodyOutcomes :
          lastCall' = [op |-> op, async |-> op \in WrappedAsync, arg |-> NoArg,
                       body |-> body, out |-> Decorated(op, body)]
    /\ UNCHANGED <<config, store, decision, storeCall, listing, mergers, frame>>
    /\ UNCHANGED remoteVars
    /\ UNCHANGED loopVars
    /\ UNCHANGED histVars

SpecBoundary == Init /\ [][DecoratedCall]_vars

(***************************************************************************)
(* The specification of repeated dismissal                                 *)
(***************************************************************************)

\* What self._api.notifications_dismiss(id) can end with.  For a pending
\* notification, any outcome.  For an id the service does not hold (dismissed
\* before, or never created) the request does not succeed: the service
\* answers 404, which Mastodon.py raises as MastodonNotFoundError, a subclass
\* of MastodonAPIError and so caught by that except clause, or the request
\* fails before the service answers.
DismissOutcomes(id) ==
    IF id \in IdsOf(inbox) THEN RemoteOutcomes ELSE KnownCategories

\* A call of dismissNotification(id) by any caller, for any id.
DismissCall ==
    /\ \E id \in 1..MaxEvents : \E o \in DismissOutcomes(id) :
          /\ inbox' = IF o = NoExc THEN Without(inbox, id) ELSE inbox
          /\ lastCall' = [op |-> "dismissNotification", async |-> FALSE,
                          arg |-> [id |-> id], body |-> ApiCall(o, None),
                          out |-> dismissNotification(o)]
    /\ UNCHANGED <<nextId, config, store, decision, storeCall, listing, mergers, frame>>
    /\ UNCHANGED loopVars
    /\ UNCHANGED histVars

DismissNext ==
    \/ Arrive
    \/ DismissCall

SpecDismiss == Init /\ [][DismissNext]_vars

(***************************************************************************)
(* The policy functions of MastoBot                                        *)
(***************************************************************************)

\* A `not v` that takes only None and False for false, not the empty string.
PyNotNoneOnly(v) == v \in {None, "False"}

\* Python's `not v` for the values a status field or a call result can have.
PyNot(v) == v \in {None, "", "False"}

\* A status as the service returns it: the id of the status it replies to
\* (None for a parent status) and the descriptions of its media attachments
\* (None or empty when the author gave no alt text).
Descriptions == {None, "", "alt"}
MediaLists == UNION {[1..n -> Descriptions] : n \in 0..MaxMedia}
Statuses ==
    {[in_reply_to_id |-> p, media_attachments |-> m] : p \in {None, "109"}, m \in MediaLists}

\* The remote reads one call of shouldReblog / shouldFavorite makes, by the
\* method that makes them, in the order they are made.
ReadSites ==
    { "isByFollower.getStatus", "isFollower.getAccount",
      "isFollower.account_relationships", "isParentStatus.getStatus",
      "containsMedia.getStatus", "containsAltText.containsMedia",
      "containsAltText.getStatus" }

\* The outcomes of the reads of one call: all return, or one of them fails,
\* with a class the decorator names or with one it does not.
AllReturn == [site \in ReadSites |-> NoExc]
PolicyReads ==
    {AllReturn} \cup {[AllReturn EXCEPT ![site] = e] :
                          site \in ReadSites, e \in {"MastodonNetworkError", "Exception"}}

\* A section of config.yml as MastoBot.shouldReblog / shouldFavorite read it:
\* the three options they get, in every setting, and a missing_message
\* option, which they do not get, enabled.
MissingMessages == {[enabled |-> TRUE, template |-> "missing_alt"]}
Sections ==
    [followers_only : BOOLEAN, parents_only : BOOLEAN, alt_text_required : BOOLEAN,
     missing_message : MissingMessages]

\* The configurations with both sections.
PolicyConfigs == [boosts : Sections, favourites : Sections]

\* MastoBot.isParentStatus: True unless in_reply_to_id is truthy.
MastoBot_isParentStatus(o, st) ==
    handleMastodonExceptions(
        LET api_status == getStatus(o)
        IN  IF api_status.exc # NoExc THEN Raised(api_status.exc)
            ELSE IF api_status.val = None THEN Raised("AttributeError")
            ELSE Returned(PyBool(PyNot(st.in_reply_to_id))))

\* MastoBot.isFollower: getAccount, then the raw account_relationships call
\* and the followed_by flag of its first record.
isFollower(oacct, orel, followed_by) ==
    handleMastodonExceptions(
        LET api_account == getAccount(oacct)
        IN  IF api_account.exc # NoExc THEN Raised(api_account.exc)
            ELSE IF api_account.val = None THEN Raised("AttributeError")
            ELSE ApiCall(orel, PyBool(followed_by)))

\* MastoBot.isByFollower: getStatus, then isFollower of the status's account.
MastoBot_isByFollower(o, oacct, orel, followed_by) ==
    handleMastodonExceptions(
        LET api_mention == getStatus(o)
        IN  IF api_mention.exc # NoExc THEN Raised(api_mention.exc)
            ELSE IF api_mention.val = None THEN Raised("AttributeError")
            ELSE isFollower(oacct, orel, followed_by))

\* MastoBot.containsMedia: len(media_attachments) > 0.
containsMedia(o, st) ==
    handleMastodonExceptions(
        LET api_status == getStatus(o)
        IN  IF api_status.exc # NoExc THEN Raised(api_status.exc)
            ELSE IF api_status.val = None THEN Raised("AttributeError")
            ELSE Returned(PyBool(Len(st.media_attachments) > 0)))

\* The for loop of containsAltText: False at the first attachment whose
\* description is falsy, True when the list is exhausted.
RECURSIVE AllDescribed(_)
AllDescribed(media_attachments) ==
    IF media_attachments = <<>> THEN "True"
    ELSE IF PyNot(Head(media_attachments)) THEN "False"
    ELSE AllDescribed(Tail(media_attachments))

\* MastoBot.containsAltText: False without media, else the loop over the
\* attachments of a second read of the status. The read of containsMedia
\* returns the status as stMedia, the second read returns it as st.
containsAltTextAt(omedia, o, stMedia, st) ==
    handleMastodonExceptions(
        LET media == containsMedia(omedia, stMedia)
        IN  IF media.exc # NoExc THEN Raised(media.exc)
            ELSE IF ~Truthy(media.val) THEN Returned("False")
            ELSE LET api_status == getStatus(o)
                 IN  IF api_status.exc # NoExc THEN Raised(api_status.exc)
                     ELSE IF api_status.val = None THEN Raised("AttributeError")
                     ELSE Returned(AllDescribed(st.media_attachments)))

\* containsAltText on a status that does not change during the call.
containsAltText(omedia, o, st) == containsAltTextAt(omedia, o, st, st)

\* The three `if` statements of shouldReblog / shouldFavorite without the
\* second of them.
GatesWithoutParentGate(section, follower, parent, media, hasAltText) ==
    IF section.followers_only /\ ~Truthy(follower) THEN "False"
    ELSE IF Truthy(media) /\ section.alt_text_required THEN hasAltText
    ELSE "True"

\* The three `if` statements without the first of them.
GatesWithoutFollowerGate(section, follower, parent, media, hasAltText) ==
    IF section.parents_only /\ ~Truthy(parent) THEN "False"
    ELSE IF Truthy(media) /\ section.alt_text_required THEN hasAltText
    ELSE "True"

\* The three `if` statements with a follower gate that refuses only an
\* author known not to follow, and lets a missing answer pass.
GatesFailOpen(section, follower, parent, media, hasAltText) ==
    IF section.followers_only /\ follower = "False" THEN "False"
    ELSE IF section.parents_only /\ ~Truthy(parent) THEN "False"
    ELSE IF Truthy(media) /\ section.alt_text_required THEN hasAltText
    ELSE "True"

\* The three `if` statements that end shouldReblog / shouldFavorite, on the
\* section of the configuration and the values the four calls returned.
Gates(section, follower, parent, media, hasAltText) ==
    IF section.followers_only /\ ~Truthy(follower) THEN "False"
    ELSE IF section.parents_only /\ ~Truthy(parent) THEN "False"
    ELSE IF Truthy(media) /\ section.alt_text_required THEN hasAltText
    ELSE "True"

\* The body shouldReblog and shouldFavorite share: the section of self.config
\* (KeyError when it is missing), the four calls in the order of the code, an
\* exception of any of them leaving the body, then the gates.
\* Each read returns the status and the follower relation as the remote
\* service holds them at the moment of the read: view[site].
PolicyBodyAt(cfg, name, reads, view) ==
    IF name \notin DOMAIN cfg THEN Raised("KeyError")
    ELSE LET follower ==
                 MastoBot_isByFollower(reads["isByFollower.getStatus"],
                                       reads["isFollower.getAccount"],
                                       reads["isFollower.account_relationships"],
                                       view["isFollower.account_relationships"].followed_by)
             parent == MastoBot_isParentStatus(reads["isParentStatus.getStatus"],
                                               view["isParentStatus.getStatus"].status)
             media == containsMedia(reads["containsMedia.getStatus"],
                                    view["containsMedia.getStatus"].status)
             hasAltText == containsAltTextAt(reads["containsAltText.containsMedia"],
                                             reads["containsAltText.getStatus"],
                                             view["containsAltText.containsMedia"].status,
                                             view["containsAltText.getStatus"].status)
         IN  IF follower.exc # NoExc THEN Raised(follower.exc)
             ELSE IF parent.exc # NoExc THEN Raised(parent.exc)
             ELSE IF media.exc # NoExc THEN Raised(media.exc)
             ELSE IF hasAltText.exc # NoExc THEN Raised(hasAltText.exc)
             ELSE Returned(Gates(cfg[name], follower.val, parent.val, media.val,
                                 hasAltText.val))

\* The body on a status and a follower relation that do not change during
\* the call.
PolicyBody(cfg, name, reads, st, followed_by) ==
    PolicyBodyAt(cfg, name, reads,
                 [site \in ReadSites |-> [status |-> st, followed_by |-> followed_by]])

\* A shouldFavorite that reads the section of shouldReblog.
shouldFavoriteFromBoosts(cfg, reads, st, followed_by) ==
    handleMastodonExceptions(PolicyBody(cfg, "boosts", reads, st, followed_by))

\* MastoBot.shouldReblog and MastoBot.shouldFavorite under the decorator.
shouldReblog(cfg, reads, st, followed_by) ==
    handleMastodonExceptions(PolicyBody(cfg, "boosts", reads, st, followed_by))
shouldFavorite(cfg, reads, st, followed_by) ==
    handleMastodonExceptions(PolicyBody(cfg, "favourites", reads, st, followed_by))

\* MastoBot.altTextTestPassed: the section named by its argument, and the
\* third gate alone.
altTextTestPassed(cfg, name, reads, st) ==
    handleMastodonExceptions(
        LET media == containsMedia(reads["containsMedia.getStatus"], st)
            hasAltText == containsAltText(reads["containsAltText.containsMedia"],
                                          reads["containsAltText.getStatus"], st)
        IN  IF media.exc # NoExc THEN Raised(media.exc)
            ELSE IF hasAltText.exc # NoExc THEN Raised(hasAltText.exc)
            ELSE IF name \notin DOMAIN cfg THEN Raised("KeyError")
            ELSE IF Truthy(media.val) /\ cfg[name].alt_text_required
                 THEN Returned(hasAltText.val)
            ELSE Returned("True"))

\* The methods of the Mastodon client and of the Redis client that write.
RemoteWrites == {"status_post", "status_reblog", "status_favourite", "notifications_dismiss"}
StoreWrites == {"json.set", "delete"}

\* A decision function that replies to the author.
ClientCallsWithNotice(op) == {"status", "status_post"}

\* The methods of self._api and self.r that the body of a decision function
\* calls, itself or through the methods of MastoBot it calls.
ClientCalls(op) ==
    IF op \in {"isParentStatus", "containsMedia", "containsAltText", "altTextTestPassed"}
    THEN {"status"}
    ELSE {"status", "account", "account_relationships"}

\* The writes among the calls of a decision function.
DecisionWrites(op) == ClientCalls(op) \cap (RemoteWrites \cup StoreWrites)

\* A bot that uses the policy functions of MastoBot, constructed with a
\* configuration that has their sections.
InitPolicy == config \in PolicyConfigs /\ InitBot

\* One call of shouldReblog or shouldFavorite for a status, by the follower
\* relation of its author and the outcomes of the reads.
PolicyCall ==
    /\ decision = NoDecision
    /\ \E op \in {"shouldReblog", "shouldFavorite"}, st \in Statuses,
          followed_by \in BOOLEAN, reads \in PolicyReads :
          decision' = [op |-> op, status |-> st, followed_by |-> followed_by,
                       reads |-> reads,
                       out |-> IF op = "shouldReblog"
                               THEN shouldReblog(config, reads, st, followed_by)
                               ELSE shouldFavorite(config, reads, st, followed_by),
                       writes |-> DecisionWrites(op)]
    /\ UNCHANGED <<config, store, storeCall, listing, mergers, frame, lastCall>>
    /\ UNCHANGED remoteVars
    /\ UNCHANGED loopVars
    /\ UNCHANGED histVars

SpecPolicy == InitPolicy /\ [][PolicyCall]_vars

\* The reads of a call in the order the call makes them.
ReadOrder ==
    << "isByFollower.getStatus", "isFollower.getAccount",
       "isFollower.account_relationships", "isParentStatus.getStatus",
       "containsMedia.getStatus", "containsAltText.containsMedia",
       "containsAltText.getStatus" >>

\* The status and the follower relation at a moment; the author can edit
\* the attachments of the status and follow or unfollow the bot, the status
\* a status replies to does not change.
Moments == [status : Statuses, followed_by : BOOLEAN]
Histories ==
    {h \in [1..2 -> Moments] : h[1].status.in_reply_to_id = h[2].status.in_reply_to_id}

\* What the reads see when the remote service goes from the first moment to
\* the second after the read at position `changed` of the order.
ViewOf(history, changed) ==
    [site \in ReadSites |->
        LET i == CHOOSE i \in 1..Len(ReadOrder) : ReadOrder[i] = site
        IN  IF i <= changed THEN history[1] ELSE history[2]]

\* MastoBot.shouldReblog while the status or the relation changes.
shouldReblogDuring(cfg, history, changed) ==
    handleMastodonExceptions(PolicyBodyAt(cfg, "boosts", AllReturn, ViewOf(history, changed)))

\* One call of shouldReblog with all reads returning, during which the
\* remote service changes the status or the relation once.
SnapshotCall ==
    /\ decision = NoDecision
    /\ \E history \in Histories, changed \in 1..(Len(ReadOrder) - 1) :
          decision' = [op |-> "shouldReblog", history |-> history, changed |-> changed,
                       reads |-> AllReturn,
                       out |-> shouldReblogDuring(config, history, changed),
                       writes |-> DecisionWrites("shouldReblog")]
    /\ UNCHANGED <<config, store, storeCall, listing, mergers, frame, lastCall>>
    /\ UNCHANGED remoteVars
    /\ UNCHANGED loopVars
    /\ UNCHANGED histVars

\* A bot with one setting for both sections.
InitSnapshot ==
    /\ config \in {c \in PolicyConfigs : c.boosts = c.favourites}
    /\ InitBot

SpecSnapshot == InitSnapshot /\ [][SnapshotCall]_vars

\* One call of one of the other decision functions of MastoBot.
HelperOps == {"altTextTestPassed", "isParentStatus", "isByFollower", "containsMedia", "containsAltText"}
HelperOut(op, name, reads, st, followed_by) ==
    CASE op = "altTextTestPassed" -> altTextTestPassed(config, name, reads, st)
      [] op = "isParentStatus" -> MastoBot_isParentStatus(reads["isParentStatus.getStatus"], st)
      [] op = "isByFollower" ->
            MastoBot_isByFollower(reads["isByFollower.getStatus"], reads["isFollower.getAccount"],
                                  reads["isFollower.account_relationships"], followed_by)
      [] op = "containsMedia" -> containsMedia(reads["containsMedia.getStatus"], st)
      [] op = "containsAltText" ->
            containsAltText(reads["containsAltText.containsMedia"],
                            reads["containsAltText.getStatus"], st)
HelperCall ==
    /\ decision = NoDecision
    /\ \E op \in HelperOps, name \in {"boosts", "favourites"}, st \in Statuses,
          followed_by \in BOOLEAN, reads \in PolicyReads :
          decision' = [op |-> op, section |-> name, status |-> st,
                       followed_by |-> followed_by, reads |-> reads,
                       out |-> HelperOut(op, name, reads, st, followed_by),
                       writes |-> DecisionWrites(op)]
    /\ UNCHANGED <<config, store, storeCall, listing, mergers, frame, lastCall>>
    /\ UNCHANGED remoteVars
    /\ UNCHANGED loopVars
    /\ UNCHANGED histVars

(***************************************************************************)
(* Construction from config.yml                                            *)
(***************************************************************************)

\* The sections shouldReblog and shouldFavorite index self.config with.
PolicyKeys == {"boosts", "favourites"}

\* config.yml as main() finds it: absent, empty, or a mapping with any of
\* the policy sections.
YamlMappings ==
    {[k \in keys |-> section] : keys \in SUBSET PolicyKeys, section \in Sections}
ConfigFiles ==
    {[kind |-> "absent"], [kind |-> "empty"]} \cup
    {[kind |-> "mapping", mapping |-> m] : m \in YamlMappings}

\* ConfigAccessor.__init__: data is the empty dict of UserDict when the file
\* is absent (FileNotFoundError is printed, not raised), None when
\* yaml.safe_load finds the file empty, else the mapping of the file.
ConfigAccessor(file) ==
    IF file.kind = "absent" THEN [data |-> "dict", items |-> <<>>]
    ELSE IF file.kind = "empty" THEN [data |-> "None", items |-> <<>>]
    ELSE [data |-> "dict", items |-> file.mapping]

\* MastoBot.__init__ with credentials that are in order: it assigns the
\* config and gets "api" and "redis" from it with defaults, which raises
\* only when data is None; it looks for no other key.
MastoBot__init__(accessor) ==
    IF accessor.data = "None" THEN Raised("TypeError") ELSE Returned(None)

\* A bot that main() has constructed from some config.yml.
InitConfig ==
    /\ \E file \in ConfigFiles :
          /\ MastoBot__init__(ConfigAccessor(file)).exc = NoExc
          /\ config = ConfigAccessor(file).items
    /\ InitBot

SpecConfig == InitConfig /\ [][PolicyCall]_vars

(***************************************************************************)
(* The local store                                                         *)
(***************************************************************************)

\* The store keys (namespaces) and ids the callers use, as sequences of
\* characters, and the documents they store: dicts over these fields.
StoreNames == {<<"n">>}
StoreIds == {<<"1">>, <<"2">>}
DocFields == {"a", "b"}
DocValues == {1, 2}
Docs == UNION {[fields -> DocValues] : fields \in SUBSET DocFields}

\* The values a localStore method returns: None, a dict or a bool.
StoreNone == [t |-> "None"]
PyDict(d) == [t |-> "dict", items |-> d]
PyBoolean(b) == [t |-> "bool", v |-> b]

\* f"{key}:{id}".
PhysicalKey(key, id) == key \o <<":">> \o id

\* The JSON text redis-py makes of a dict of numbers, and the dict it makes
\* of the JSON text the server returns.
json_dumps(d) == [k \in DOMAIN d |-> [type |-> "number", n |-> d[k]]]
json_loads(j) == [k \in DOMAIN j |-> j[k].n]

\* JSON.SET k $ v, JSON.GET k (None when the key does not exist), DEL k and
\* EXISTS k on the documents held by the server.
JsonSet(s, k, v) == [x \in DOMAIN s \cup {k} |-> IF x = k THEN v ELSE s[x]]
JsonGet(s, k) == IF k \in DOMAIN s THEN PyDict(json_loads(s[k])) ELSE StoreNone
Del(s, k) == [x \in DOMAIN s \ {k} |-> s[x]]
Exists(s, k) == Cardinality({k} \cap DOMAIN s)

\* A dict.update that keeps the value of a key the dict already has.
dict_update_keeping(current, new_data) ==
    [k \in DOMAIN current \cup DOMAIN new_data |->
        IF k \in DOMAIN current THEN current[k] ELSE new_data[k]]

\* A merge that stores new_data alone.
dict_update_replacing(current, new_data) == new_data

\* current.update(new_data).
dict_update(current, new_data) ==
    [k \in DOMAIN current \cup DOMAIN new_data |->
        IF k \in DOMAIN new_data THEN new_data[k] ELSE current[k]]

\* The outcome of a localStore method: the store after it, the exception
\* that left it and the value it returned.
StoreOutcome(s, exc, val) == [store |-> s, exc |-> exc, val |-> val]

\* localStoreSet, localStoreGet, localStoreMerge, localStoreExists.
localStoreSet(s, key, id, data) ==
    StoreOutcome(JsonSet(s, PhysicalKey(key, id), json_dumps(data)), NoExc, StoreNone)
localStoreGet(s, key, id) ==
    StoreOutcome(s, NoExc, JsonGet(s, PhysicalKey(key, id)))
localStoreMerge(s, key, id, new_data) ==
    LET current == JsonGet(s, PhysicalKey(key, id))
    IN  IF current = StoreNone
        THEN StoreOutcome(s, "AttributeError", StoreNone)
        ELSE StoreOutcome(JsonSet(s, PhysicalKey(key, id),
                                  json_dumps(dict_update(current.items, new_data))),
                          NoExc, StoreNone)
localStoreExists(s, key, id) ==
    StoreOutcome(s, NoExc, PyBoolean(Exists(s, PhysicalKey(key, id)) >= 1))

\* A delete that raises for a key the store does not hold.
localStoreDeleteStrict(s, key, id) ==
    IF PhysicalKey(key, id) \in DOMAIN s
    THEN StoreOutcome(Del(s, PhysicalKey(key, id)), NoExc, StoreNone)
    ELSE StoreOutcome(s, "KeyError", StoreNone)

\* localStoreDelete.
localStoreDelete(s, key, id) ==
    StoreOutcome(Del(s, PhysicalKey(key, id)), NoExc, StoreNone)

\* Everything but the store and the record of the last call on it.
nonStoreVars ==
    <<remoteVars, loopVars, histVars, config, decision, frame, listing, mergers, lastCall>>

\* A call of a localStore method that ended as `outcome`: the store after it
\* and the record of the call, with whether the key existed before it.
StoreCall(op, key, id, data, outcome) ==
    /\ store' = outcome.store
    /\ storeCall' = [op |-> op, key |-> key, id |-> id, data |-> data,
                     existed |-> PhysicalKey(key, id) \in DOMAIN store,
                     exc |-> outcome.exc, val |-> outcome.val]

StoreSet ==
    /\ \E key \in StoreNames, id \in StoreIds, data \in Docs :
          StoreCall("localStoreSet", key, id, PyDict(data),
                    localStoreSet(store, key, id, data))
    /\ UNCHANGED nonStoreVars

StoreGet ==
    /\ \E key \in StoreNames, id \in StoreIds :
          StoreCall("localStoreGet", key, id, StoreNone, localStoreGet(store, key, id))
    /\ UNCHANGED nonStoreVars

StoreMerge ==
    /\ \E key \in StoreNames, id \in StoreIds, new_data \in Docs :
          StoreCall("localStoreMerge", key, id, PyDict(new_data),
                    localStoreMerge(store, key, id, new_data))
    /\ UNCHANGED nonStoreVars

StoreExists ==
    /\ \E key \in StoreNames, id \in StoreIds :
          StoreCall("localStoreExists", key, id, StoreNone,
                    localStoreExists(store, key, id))
    /\ UNCHANGED nonStoreVars

StoreDelete ==
    /\ \E key \in StoreNames, id \in StoreIds :
          StoreCall("localStoreDelete", key, id, StoreNone,
                    localStoreDelete(store, key, id))
    /\ UNCHANGED nonStoreVars

StoreNext ==
    \/ StoreSet
    \/ StoreGet
    \/ StoreMerge
    \/ StoreExists
    \/ StoreDelete

SpecStore == Init /\ [][StoreNext]_vars

(***************************************************************************)
(* The specification of the decision functions                             *)
(***************************************************************************)

\* A bot with one setting for both sections and a document in its store.
InitDecisions ==
    /\ config \in {c \in PolicyConfigs : c.boosts = c.favourites}
    /\ store = localStoreSet(EmptyStore, <<"n">>, <<"1">>, [f \in {"a"} |-> 1]).store
    /\ InitBotButStore

DecisionNext ==
    \/ PolicyCall
    \/ HelperCall

SpecDecisions == InitDecisions /\ [][DecisionNext]_vars

(***************************************************************************)
(* Enumeration of the local store                                          *)
(***************************************************************************)

\* The most calls of SCAN one iteration of the backend takes.
MaxScanCalls == 3

\* The namespaces and ids of the enumerated store; one id holds the
\* separator of the physical key.
ListNames == {<<"n">>, <<"m">>}
ListIds == {<<"1">>, <<"2">>, <<"1", ":", "2">>}
ListEntries ==
    {<<<<"n">>, <<"1">>>>, <<<<"n">>, <<"2">>>>, <<<<"n">>, <<"1", ":", "2">>>>,
     <<<<"m">>, <<"1">>>>}

\* The document stored under an id: a different one for each id.
DocOf(id) == [f \in {"a"} |-> Len(id) + (IF Head(id) = "2" THEN 1 ELSE 0)]

\* The stores the enumeration starts from: what localStoreSet leaves after
\* setting any of the entries.
RECURSIVE SetAll(_)
SetAll(entries) ==
    IF entries = {} THEN EmptyStore
    ELSE LET e == CHOOSE e \in entries : TRUE
         IN  localStoreSet(SetAll(entries \ {e}), e[1], e[2], DocOf(e[2])).store
ListStores == {SetAll(entries) : entries \in SUBSET ListEntries}

\* The glob f"{key}:*" of localStoreKeyGetAll: the physical keys that start
\* with the namespace and the separator.
Matches(k, key) ==
    /\ Len(k) >= Len(key) + 1
    /\ SubSeq(k, 1, Len(key) + 1) = key \o <<":">>
Matching(s, key) == {k \in DOMAIN s : Matches(k, key)}

\* A list of the elements of a set, in the order the backend holds them.
RECURSIVE SeqOf(_)
SeqOf(S) ==
    IF S = {} THEN <<>>
    ELSE LET x == CHOOSE x \in S : TRUE IN <<x>> \o SeqOf(S \ {x})

\* One SCAN of the backend. Cursor 0 starts an iteration over the matching
\* keys; a reply holds any of the keys not yet returned, possibly none,
\* possibly followed by a key returned before, and the cursor of the next
\* call, which is 0 only when every key has been returned, and is 0 at the
\* latest at call MaxScanCalls.
ScanReplies(s, key, backend, cursor) ==
    LET pending == IF cursor = 0 THEN Matching(s, key) ELSE backend.pending
        seen == Matching(s, key) \ pending
        n == (IF cursor = 0 THEN 0 ELSE backend.calls) + 1
    IN  UNION {{[cursor |-> c, page |-> SeqOf(new) \o dup,
                 backend |-> [pending |-> pending \ new, calls |-> n]] :
                   dup \in {<<>>} \cup {<<d>> : d \in seen \cup new}, c \in {0, n}} :
               new \in {x \in SUBSET pending : n < MaxScanCalls \/ x = pending}}
ScanReply(s, key, backend, cursor) ==
    {r \in ScanReplies(s, key, backend, cursor) :
        /\ (r.cursor = 0 => r.backend.pending = {})
        /\ (r.backend.calls = MaxScanCalls => r.cursor = 0)}

\* str.split(":"): the parts of a physical key between separators.
RECURSIVE split(_)
split(k) ==
    IF \A i \in 1..Len(k) : k[i] # ":" THEN <<k>>
    ELSE LET i == CHOOSE i \in 1..Len(k) :
                      k[i] = ":" /\ \A j \in 1..(i - 1) : k[j] # ":"
         IN  <<SubSeq(k, 1, i - 1)>> \o split(SubSeq(k, i + 1, Len(k)))

\* The call of localStoreKeyGetAll(key) or localStoreObjectGetAll(key):
\* keys = [] and cursor = 0 before the while loop.
ListOps == {"localStoreKeyGetAll", "localStoreObjectGetAll"}
ListStart ==
    /\ listing.pc = "idle"
    /\ \E op \in ListOps, key \in ListNames :
          listing' = [pc |-> "scan", op |-> op, key |-> key, cursor |-> 0,
                      keys |-> <<>>, objects |-> <<>>, k |-> 1, exc |-> NoExc,
                      backend |-> [pending |-> {}, calls |-> 0],
                      sent |-> <<>>, replies |-> <<>>]
    /\ UNCHANGED <<remoteVars, loopVars, histVars>>
    /\ UNCHANGED <<config, store, decision, storeCall, mergers, frame, lastCall>>

\* A scan that restarts the iteration at each call.
ScanCursorRestarting(cursor) == 0

\* The cursor self.r.scan is called with: the one the last call returned.
ScanCursor(cursor) == cursor

\* One round of the while loop of localStoreKeyGetAll: scan with the cursor,
\* extend keys with the page, break when the new cursor is 0. The for loop
\* of localStoreObjectGetAll follows when there are keys.
ListScan ==
    /\ listing.pc = "scan"
    /\ \E r \in ScanReply(store, listing.key, listing.backend, ScanCursor(listing.cursor)) :
          LET keys == listing.keys \o r.page
          IN  listing' = [listing EXCEPT
                  !.cursor = r.cursor,
                  !.keys = keys,
                  !.backend = r.backend,
                  !.sent = Append(@, ScanCursor(listing.cursor)),
                  !.replies = Append(@, [cursor |-> r.cursor, page |-> r.page]),
                  !.pc = IF r.cursor # 0 THEN "scan"
                         ELSE IF listing.op = "localStoreKeyGetAll" \/ keys = <<>>
                              THEN "done"
                         ELSE "get"]
    /\ UNCHANGED <<remoteVars, loopVars, histVars>>
    /\ UNCHANGED <<config, store, decision, storeCall, mergers, frame, lastCall>>

\* One round of the for loop of localStoreObjectGetAll: the unpacking of
\* k.split(":") into two names (ValueError for any other number of parts)
\* and the append of what localStoreGet returns.
ListGet ==
    /\ listing.pc = "get"
    /\ LET parts == split(listing.keys[listing.k])
       IN  IF Len(parts) # 2
           THEN listing' = [listing EXCEPT !.pc = "failed", !.exc = "ValueError"]
           ELSE LET got == localStoreGet(store, parts[1], parts[2])
                IN  listing' = [listing EXCEPT
                        !.objects = Append(@, got.val),
                        !.k = @ + 1,
                        !.pc = IF listing.k = Len(listing.keys) THEN "done" ELSE "get"]
    /\ UNCHANGED <<remoteVars, loopVars, histVars>>
    /\ UNCHANGED <<config, store, decision, storeCall, mergers, frame, lastCall>>

\* localStoreDelete by another process while the enumeration runs; the
\* backend does not return a key it no longer holds.
OtherDelete ==
    /\ listing.pc \in {"scan", "get"}
    /\ \E e \in ListEntries :
          /\ PhysicalKey(e[1], e[2]) \in DOMAIN store
          /\ store' = localStoreDelete(store, e[1], e[2]).store
          /\ listing' = [listing EXCEPT !.backend.pending = @ \ {PhysicalKey(e[1], e[2])}]
    /\ UNCHANGED <<remoteVars, loopVars, histVars>>
    /\ UNCHANGED <<config, decision, storeCall, mergers, frame, lastCall>>

\* The bot constructed on a database that holds documents.
InitList ==
    /\ config = [boosts |-> Everything, favorites |-> Everything]
    /\ store \in ListStores
    /\ InitBotButStore

\* The enumeration with no other process.
ListNext ==
    \/ ListStart
    \/ ListScan
    \/ ListGet

SpecList == InitList /\ [][ListNext]_vars
SpecListFair == SpecList /\ WF_vars(ListNext)

\* The enumeration with another process that deletes.
ListConcurrentNext ==
    \/ ListNext
    \/ OtherDelete

SpecListConcurrent == InitList /\ [][ListConcurrentNext]_vars

(***************************************************************************)
(* localStoreMerge by two processes                                        *)
(***************************************************************************)

\* The two processes, and the key both merge into.
Mergers == {"p", "q"}
MergeName == <<"n">>
MergeId == <<"1">>

\* The stores the merges start from: the key absent, or set to a document.
MergeStores == {EmptyStore} \cup {localStoreSet(EmptyStore, MergeName, MergeId, d).store : d \in Docs}

\* The two calls of localStoreMerge(key, id, new_data), each with its own
\* partial document, before their first statement.
MergeBegin ==
    /\ mergers = NoMergers
    /\ \E new_data \in [Mergers -> Docs] :
          mergers' = [m \in Mergers |->
                         [pc |-> "get", new_data |-> new_data[m], current |-> StoreNone,
                          exc |-> NoExc, overlapped |-> FALSE]]
    /\ UNCHANGED <<remoteVars, loopVars, histVars>>
    /\ UNCHANGED <<config, store, decision, storeCall, listing, frame, lastCall>>

\* current = self.r.json().get(...) of one process. The read overlaps the
\* other merge when that one has read and not yet written.
MergeGet(m) ==
    /\ m \in DOMAIN mergers
    /\ mergers[m].pc = "get"
    /\ mergers' = [mergers EXCEPT
           ![m].current = JsonGet(store, PhysicalKey(MergeName, MergeId)),
           ![m].overlapped = \E o \in Mergers \ {m} : mergers[o].pc = "set",
           ![m].pc = "set"]
    /\ UNCHANGED <<remoteVars, loopVars, histVars>>
    /\ UNCHANGED <<config, store, decision, storeCall, listing, frame, lastCall>>

\* current.update(new_data) and the set of the result, of one process;
\* AttributeError at the update when the read returned None.
MergeSet(m) ==
    /\ m \in DOMAIN mergers
    /\ mergers[m].pc = "set"
    /\ IF mergers[m].current = StoreNone
       THEN /\ mergers' = [mergers EXCEPT ![m].pc = "failed", ![m].exc = "AttributeError"]
            /\ store' = store
       ELSE /\ store' = JsonSet(store, PhysicalKey(MergeName, MergeId),
                                json_dumps(dict_update(mergers[m].current.items,
                                                       mergers[m].new_data)))
            /\ mergers' = [mergers EXCEPT ![m].pc = "done"]
    /\ UNCHANGED <<remoteVars, loopVars, histVars>>
    /\ UNCHANGED <<config, decision, storeCall, listing, frame, lastCall>>

InitMerge ==
    /\ config = [boosts |-> Everything, favorites |-> Everything]
    /\ store \in MergeStores
    /\ InitBotButStore

MergeNext ==
    \/ MergeBegin
    \/ \E m \in Mergers : MergeGet(m)
    \/ \E m \in Mergers : MergeSet(m)

SpecMerge == InitMerge /\ [][MergeNext]_vars

(***************************************************************************)
(* Properties                                                              *)
(***************************************************************************)

\* _process_notifications has been left, by its return or by an exception:
\* `invoked` and `failed` then describe the whole dispatch of `notifications`.
DispatchOver == pc = "sleep" \/ (pc = "terminated" /\ crashSite = "dispatch")

\* Position j of the batch was passed to a handler.
Routed(j) == \E k \in 1..Len(invoked) : invoked[k].pos = j

\* The notification of this id is pending on the remote service.
Pending(i) == i \in IdsOf(inbox)

\* C1: bulkhead within a batch.  When the dispatch of a batch is over, every
\* known-kind event at a position after one whose handler raised has been
\* routed to its handler.
C1_Bulkhead ==
    DispatchOver =>
        \A i \in failed : \A j \in (i + 1)..Len(notifications) :
            notifications[j].type \in KnownTypes => Routed(j)

\* C2: run() never terminates because of a per-event failure: the exception
\* of a handler never leaves run() through the dispatch statement.
C2_RunSurvivesEventFailure ==
    pc = "terminated" => crashSite # "dispatch"

\* C3: a fetch that fails with one of the known remote-failure categories
\* does not raise out of the await in run(), so run() does not terminate on it.
C3_FetchFailureSuppressed ==
    (pc = "terminated" /\ crashSite = "fetch") => runExc \notin KnownCategories

\* C4: the boundary policy for every decorated operation.  A body that raises
\* one of the eight known classes gives its caller None and no exception; a
\* body that raises anything else gives its caller that exception; a body
\* that returns gives its caller the value it returned.
C4_BoundaryPolicy ==
    lastCall.op # "none" =>
        /\ lastCall.body.exc \in KnownCategories => lastCall.out = Returned(None)
        /\ (lastCall.body.exc # NoExc /\ lastCall.body.exc \notin KnownCategories)
              => lastCall.out.exc = lastCall.body.exc
        /\ lastCall.body.exc = NoExc => lastCall.out = lastCall.body

\* C5: at the end of a poll cycle, every event of the batch that was routed
\* to a handler whose body did not raise (and for which no dismiss call was
\* refused by the remote service) is dismissed.
C5_HandledIsDismissed ==
    pc = "sleep" =>
        \A k \in 1..Len(invoked) :
            (invoked[k].pos \notin failed /\ invoked[k].id \notin dismissFailed)
                => ~Pending(invoked[k].id)

\* C6: an unknown-kind event in a batch is passed to no handler and raises
\* nothing, and every other event of the batch (of a known kind, whose own
\* handler did not raise and whose dismiss call the remote service did not
\* refuse) has been handled and dismissed when the dispatch is over.
C6_UnknownSkipped ==
    DispatchOver =>
        \A u \in 1..Len(notifications) :
            notifications[u].type = UnknownType =>
                /\ ~Routed(u)
                /\ u \notin failed
                /\ \A j \in 1..Len(notifications) :
                      (notifications[j].type \in KnownTypes /\ j \notin failed
                          /\ notifications[j].id \notin dismissFailed)
                          => (Routed(j) /\ ~Pending(notifications[j].id))

\* A pending notification of this id is of the unknown kind.
UnknownPending(i) ==
    \E k \in 1..Len(inbox) : inbox[k].id = i /\ inbox[k].type = UnknownType

\* C7: an unknown-kind event is eventually dismissed on the remote service
\* (as long as run() goes on), so fetch does not return it forever.
C7_UnknownEventuallyDismissed ==
    \A i \in 1..MaxEvents :
        [](UnknownPending(i) => <>(~Pending(i) \/ pc = "terminated"))

\* The events of the batch of a known kind, in the order of the batch.
KnownOf(batch) == SelectSeq(batch, LAMBDA n : n.type \in KnownTypes)

\* C8: when the dispatch of a batch is over, the handler calls made are the
\* events of known kind of the batch, in its order, one call per occurrence,
\* each to the handler of the event's kind.
C8_DispatchOrder ==
    DispatchOver =>
        /\ Len(invoked) = Len(KnownOf(notifications))
        /\ \A k \in 1..Len(invoked) :
              /\ invoked[k].id = KnownOf(notifications)[k].id
              /\ invoked[k].handler = HandlerOf(KnownOf(notifications)[k].type)

\* C9, the order of the statements of an iteration: run() goes from the fetch
\* to the dispatch, from the dispatch to the pause and from the pause to the
\* next fetch, or it is left by an exception.
RunOrder ==
    pc' # pc =>
        \/ pc = "fetch" /\ pc' \in {"dispatch", "terminated"}
        \/ pc = "dispatch" /\ pc' \in {"sleep", "terminated"}
        \/ pc = "sleep" /\ pc' = "fetch"

\* C9, no overlap: while the dispatch is in progress the batch is not fetched
\* anew and the loop only advances; a handler is called only when none is in
\* progress, and is in progress only during the dispatch.
NoOverlap ==
    /\ (pc = "dispatch" /\ pc' = "dispatch")
          => (notifications' = notifications /\ lastFetched' = lastFetched /\ idx' >= idx)
    /\ Len(invoked') > Len(invoked) => (frame = NoFrame /\ frame'.ev = notifications[idx])
    /\ (frame # NoFrame /\ frame' # NoFrame) => frame'.ev = frame.ev

\* C9, the batch dispatched is the batch just fetched, and the handler in
\* progress is the one of the event the loop is at.
DispatchesFetched ==
    /\ pc = "dispatch" => notifications = lastFetched
    /\ frame # NoFrame => (pc = "dispatch" /\ idx <= Len(notifications)
                              /\ frame.ev = notifications[idx])

\* C9: the run loop is strictly sequential: fetch, then the dispatch of
\* exactly the batch fetched, then the pause; no fetch during a dispatch and
\* never two events in handling at once.
C9_Sequential == []DispatchesFetched /\ [][RunOrder /\ NoOverlap]_vars

\* C9, witness: in a later iteration, a handler is in progress for an event
\* that an earlier iteration had fetched too.
C9_Witness ==
    pc = "dispatch" /\ frame # NoFrame /\ frame.ev.id \in refetched /\ idx > 1

\* C10: an event that was dismissed is not fetched again, and an event is
\* fetched again only if a dismissal of it failed.
C10_RefetchOnlyAfterFailedDismissal ==
    /\ (pc = "dispatch" /\ idx = 1 /\ frame = NoFrame)
          => IdsOf(notifications) \cap Dismissed = {}
    /\ refetched \subseteq dismissFailed

\* C11: idempotent dismissal.  A call of dismissNotification for an event
\* that is already dismissed changes nothing on the remote service and
\* reports no error to its caller; so two calls leave the state one call
\* leaves.  After a call the service accepted, the event is not pending.
C11_IdempotentDismissal ==
    [][DismissCall =>
          /\ lastCall'.arg.id \in Dismissed
                => (inbox' = inbox /\ lastCall'.out = Returned(None))
          /\ lastCall'.body.exc = NoExc => lastCall'.arg.id \notin IdsOf(inbox')]_vars

\* C11, witness: the last call was a second dismissal of an event dismissed
\* before, which the service answered with an error.
C11_Witness ==
    /\ lastCall.op = "dismissNotification"
    /\ lastCall.arg.id \in Dismissed
    /\ lastCall.body.exc = "MastodonAPIError"
    /\ lastCall.out = Returned(None)

\* "Every attachment has a non-empty description."
EveryAttachmentDescribed(st) ==
    \A k \in 1..Len(st.media_attachments) : st.media_attachments[k] \notin {None, ""}

\* The four-step gate sequence of the policy contract.
GateSequence(section, st, followed_by) ==
    IF section.followers_only /\ ~followed_by THEN FALSE
    ELSE IF section.parents_only /\ st.in_reply_to_id # None THEN FALSE
    ELSE IF Len(st.media_attachments) >= 1 /\ section.alt_text_required
    THEN EveryAttachmentDescribed(st)
    ELSE TRUE

\* C12: when all remote reads succeed, shouldReblog returns exactly the result
\* of the four-step gate sequence on the "boosts" section, the follower
\* relation, the parent and the attachment descriptions of the status.
C12_PolicyReference ==
    (decision.op = "shouldReblog" /\ decision.reads = AllReturn)
        => decision.out
              = Returned(PyBool(GateSequence(config.boosts, decision.status,
                                             decision.followed_by)))

\* C12, witness: a follower's reply is refused by the parent gate.
C12_Witness ==
    /\ decision.op = "shouldReblog"
    /\ decision.reads = AllReturn
    /\ config.boosts.followers_only /\ decision.followed_by
    /\ config.boosts.parents_only /\ decision.status.in_reply_to_id # None
    /\ decision.out = Returned("False")

\* The section of the configuration the decision was made on.
SectionOf(op) == IF op = "shouldReblog" THEN config.boosts ELSE config.favourites

\* The decision in `decision` passed the follower gate and the parent gate.
PassesFollowerGate == ~SectionOf(decision.op).followers_only \/ decision.followed_by
PassesParentGate ==
    ~SectionOf(decision.op).parents_only \/ decision.status.in_reply_to_id = None

\* C13: non-follower short-circuit.  With followers_only set and an author
\* who is not a follower, shouldReblog / shouldFavorite return False whatever
\* the parent, the media and the alt texts of the status are; and whatever
\* the reads end with, they never return True.
C13_NonFollowerRefused ==
    (decision.op # "none" /\ SectionOf(decision.op).followers_only
        /\ ~decision.followed_by)
        => /\ decision.out.val # "True"
           /\ decision.reads = AllReturn => decision.out = Returned("False")

\* C13, witness: a non-follower's parent status with two described
\* attachments, which passes every other gate, is refused.
C13_Witness ==
    /\ decision.op = "shouldFavorite"
    /\ config.favourites.followers_only /\ ~decision.followed_by
    /\ decision.reads = AllReturn
    /\ decision.status = [in_reply_to_id |-> None, media_attachments |-> <<"alt", "alt">>]
    /\ decision.out = Returned("False")

\* C14: the alt-text gate.  For a status with at least one attachment that
\* passes the follower gate and the parent gate under alt_text_required, the
\* decision is True if and only if every attachment has a non-empty
\* description, and False otherwise.
C14_AltTextGate ==
    (decision.op # "none" /\ decision.reads = AllReturn
        /\ Len(decision.status.media_attachments) >= 1
        /\ SectionOf(decision.op).alt_text_required
        /\ PassesFollowerGate /\ PassesParentGate)
        => decision.out
              = Returned(PyBool(EveryAttachmentDescribed(decision.status)))

\* C14, witness: two attachments, the first described and the second with an
\* empty description: the decision is False.
C14_Witness ==
    /\ decision.op = "shouldReblog"
    /\ decision.reads = AllReturn
    /\ config.boosts.alt_text_required
    /\ PassesFollowerGate /\ PassesParentGate
    /\ decision.status.media_attachments = <<"alt", "">>
    /\ decision.out = Returned("False")

\* The decision in `decision` is a refusal for missing alt text.
MissingAltText ==
    /\ decision.op # "none" /\ decision.reads = AllReturn
    /\ PassesFollowerGate /\ PassesParentGate
    /\ Len(decision.status.media_attachments) >= 1
    /\ SectionOf(decision.op).alt_text_required
    /\ ~EveryAttachmentDescribed(decision.status)

FollowerGatesOnly(boosts, favourites) ==
    [boosts |-> [followers_only |-> boosts, parents_only |-> FALSE,
                 alt_text_required |-> FALSE,
                 missing_message |-> config.boosts.missing_message],
     favourites |-> [followers_only |-> favourites, parents_only |-> FALSE,
                     alt_text_required |-> FALSE,
                     missing_message |-> config.favourites.missing_message]]

\* C16: policy independence.  The result of shouldReblog is the same under
\* every other "favourites" section and the result of shouldFavorite the same
\* under every other "boosts" section; with equal sections the two functions
\* return the same; and for the status of a non-follower each of the four
\* pairs of decisions is the result under some configuration.
C16_PolicyIndependence ==
    decision.op # "none" =>
        LET reads == decision.reads
            st == decision.status
            fb == decision.followed_by
        IN  /\ decision.op = "shouldReblog" =>
                  \A f \in Sections :
                      shouldReblog([config EXCEPT !.favourites = f], reads, st, fb)
                          = decision.out
            /\ decision.op = "shouldFavorite" =>
                  \A b \in Sections :
                      shouldFavorite([config EXCEPT !.boosts = b], reads, st, fb)
                          = decision.out
            /\ config.boosts = config.favourites =>
                  shouldReblog(config, reads, st, fb) = shouldFavorite(config, reads, st, fb)
            /\ ~fb =>
                  \A boost \in BOOLEAN, favourite \in BOOLEAN :
                      LET c == FollowerGatesOnly(~boost, ~favourite)
                      IN  /\ shouldReblog(c, AllReturn, st, fb) = Returned(PyBool(boost))
                          /\ shouldFavorite(c, AllReturn, st, fb) = Returned(PyBool(favourite))

\* C16, witness: a status that shouldReblog accepts and that shouldFavorite
\* refuses under the same configuration.
C16_Witness ==
    /\ decision.op = "shouldReblog"
    /\ decision.reads = AllReturn
    /\ decision.out = Returned("True")
    /\ shouldFavorite(config, decision.reads, decision.status, decision.followed_by)
          = Returned("False")

\* What get(key, id) returns on the store s, and the records other than
\* (key, id).
Got(s, key, id) == localStoreGet(s, key, id).val
Others(key, id) == (StoreNames \X StoreIds) \ {<<key, id>>}

\* A shallow key-wise overwrite: the keys of partial replace or add, every
\* other key keeps its value.
ShallowOverwrite(document, partial) ==
    [k \in DOMAIN document \cup DOMAIN partial |->
        IF k \in DOMAIN partial THEN partial[k] ELSE document[k]]

\* C17: store round-trip.  A set makes get return exactly the document set;
\* a merge makes get return the document before it with the partial document
\* overwritten onto it; a get returns what is stored and changes nothing; and
\* no operation changes what get returns for another record.  So after any
\* sequence of operations get returns the last document set with the later
\* merges applied.
C17_StoreRoundTrip ==
    [][LET c == storeCall'
       IN  /\ c.op = "localStoreSet" => Got(store', c.key, c.id) = c.data
           /\ (c.op = "localStoreMerge" /\ c.exc = NoExc) =>
                 Got(store', c.key, c.id)
                     = PyDict(ShallowOverwrite(Got(store, c.key, c.id).items, c.data.items))
           /\ c.op = "localStoreGet" =>
                 (store' = store /\ c.val = Got(store, c.key, c.id))
           /\ \A o \in Others(c.key, c.id) : Got(store', o[1], o[2]) = Got(store, o[1], o[2])]_vars

\* C17, witness: merge of {"b": 2} into a record that was {"a": 1}: get now
\* returns {"a": 1, "b": 2}.
C17_Witness ==
    /\ storeCall.op = "localStoreMerge"
    /\ storeCall.exc = NoExc
    /\ storeCall.data = PyDict([k \in {"b"} |-> 2])
    /\ Got(store, storeCall.key, storeCall.id)
          = PyDict([k \in {"a", "b"} |-> IF k = "a" THEN 1 ELSE 2])

\* C18: get on a key that is absent from the store fails with NotFound and
\* returns no value.
C18_GetAbsentFails ==
    (storeCall.op = "localStoreGet" /\ ~storeCall.existed)
        => storeCall.exc = "NotFound"

\* C19: merge is not an upsert.  On an absent key it fails with NotFound and
\* leaves the store unchanged: the key is still absent and no other record
\* is modified.
C19_MergeAbsentFails ==
    [][(storeCall'.op = "localStoreMerge" /\ ~storeCall'.existed) =>
          /\ storeCall'.exc = "NotFound"
          /\ store' = store
          /\ localStoreExists(store', storeCall'.key, storeCall'.id).val = PyBoolean(FALSE)]_vars

\* C20: delete is idempotent.  A delete raises nothing; after it exists is
\* false; on an absent key it changes nothing; another delete of the same
\* record would leave the store as it is; no other record is modified.
C20_DeleteIdempotent ==
    [][storeCall'.op = "localStoreDelete" =>
          LET c == storeCall'
          IN  /\ c.exc = NoExc
              /\ localStoreExists(store', c.key, c.id).val = PyBoolean(FALSE)
              /\ ~c.existed => store' = store
              /\ localStoreDelete(store', c.key, c.id) = StoreOutcome(store', NoExc, StoreNone)
              /\ \A o \in Others(c.key, c.id) :
                    Got(store', o[1], o[2]) = Got(store, o[1], o[2])]_vars

\* C20, witness: a delete of a record that was absent, in a store that holds
\* another record.
C20_Witness ==
    /\ storeCall.op = "localStoreDelete"
    /\ ~storeCall.existed
    /\ storeCall.exc = NoExc
    /\ store # EmptyStore
\* What localStoreKeyGetAll returned, once its while loop has ended.
KeysReturned == listing.pc \in {"get", "done", "failed"}
StoredUnder(s, key) == {PhysicalKey(key, id) : id \in ListIds} \cap DOMAIN s
Range(seq) == {seq[i] : i \in 1..Len(seq)}
NoDuplicates(seq) == \A i, j \in 1..Len(seq) : seq[i] = seq[j] => i = j

\* C21: with no other process writing, localStoreKeyGetAll(ns) returns the
\* keys of exactly the ids stored under ns, each of them once and none of
\* another namespace, however the backend pages the scan.
C21_EnumerationComplete ==
    KeysReturned =>
        /\ Range(listing.keys) = StoredUnder(store, listing.key)
        /\ NoDuplicates(listing.keys)

\* What the while loop does establish: every stored id of the namespace is
\* returned and nothing else is.
EnumeratesSameSet == KeysReturned => Range(listing.keys) = StoredUnder(store, listing.key)

\* C22: when another process deletes documents during localStoreObjectGetAll,
\* the call fails or returns documents only: no entry of what it collects is
\* a placeholder for a document that is not stored.
C22_NoPlaceholder ==
    (listing.pc \in {"get", "done"} /\ listing.op = "localStoreObjectGetAll") =>
        \A i \in 1..Len(listing.objects) : listing.objects[i] # StoreNone

\* The pages of the replies so far, one after the other.
RECURSIVE Pages(_)
Pages(replies) ==
    IF replies = <<>> THEN <<>> ELSE Pages(SubSeq(replies, 1, Len(replies) - 1)) \o replies[Len(replies)].page

\* The calls of SCAN so far follow the protocol: the first with cursor 0,
\* each later one with the cursor the call before returned, every page
\* accumulated, and the loop left at the first reply with cursor 0 and not
\* before.
ScanProtocol ==
    listing.pc # "idle" =>
        /\ Len(listing.sent) = Len(listing.replies)
        /\ \A i \in 1..Len(listing.sent) :
              listing.sent[i] = IF i = 1 THEN 0 ELSE listing.replies[i - 1].cursor
        /\ listing.keys = Pages(listing.replies)
        /\ \A i \in 1..(Len(listing.replies) - 1) : listing.replies[i].cursor # 0
        /\ KeysReturned <=> /\ listing.replies # <<>>
                            /\ listing.replies[Len(listing.replies)].cursor = 0

\* C26: localStoreKeyGetAll starts the scan at cursor 0, passes each cursor
\* returned to the next call, accumulates every page and stops exactly when
\* the backend returns cursor 0, never at an empty page; it terminates when
\* the backend eventually returns cursor 0.
C26_CursorScan == []ScanProtocol /\ (listing.pc = "scan" ~> KeysReturned)

\* A scan of three calls, the first of which returned an empty page, has
\* ended with keys.
C26_Witness ==
    /\ KeysReturned
    /\ Len(listing.replies) = 3
    /\ listing.replies[1].page = <<>>
    /\ listing.replies[1].cursor # 0
    /\ Len(listing.keys) >= 2

\* No namespace and no id of a stored document holds the separator.
SeparatorFree(s) == \A k \in DOMAIN s : Len(split(k)) = 2
ObjectsReturned == listing.pc = "done" /\ listing.op = "localStoreObjectGetAll"
DocsUnder(s, key) == {JsonGet(s, k) : k \in StoredUnder(s, key)}

\* What localStoreObjectGetAll does establish in a store without separators:
\* the documents it returns are those stored under the namespace.
ListsSameDocs ==
    (ObjectsReturned /\ SeparatorFree(store)) =>
        Range(listing.objects) = DocsUnder(store, listing.key)

\* An id with the separator under the namespace makes the call fail.
SeparatorFails ==
    ObjectsReturned =>
        \A k \in StoredUnder(store, listing.key) : Len(split(k)) = 2

\* C27: with no separator in any stored namespace or id,
\* localStoreObjectGetAll(ns) returns exactly the documents stored under ns,
\* one for each stored id; with a separator in a stored id of ns it fails.
C27_KeySeparator ==
    /\ (ObjectsReturned /\ SeparatorFree(store)) =>
            /\ Range(listing.objects) = DocsUnder(store, listing.key)
            /\ Len(listing.objects) = Cardinality(StoredUnder(store, listing.key))
    /\ SeparatorFails

\* The stored document of the key both processes merge into.
Merged == JsonGet(store, PhysicalKey(MergeName, MergeId))
BothMerged == mergers # NoMergers /\ \A m \in Mergers : mergers[m].pc = "done"
DisjointPartials ==
    \A m, o \in Mergers : m # o => DOMAIN mergers[m].new_data \cap DOMAIN mergers[o].new_data = {}
Keeps(m) == \A f \in DOMAIN mergers[m].new_data : f \in DOMAIN Merged.items /\ Merged.items[f] = mergers[m].new_data[f]
OneAfterTheOther == \A m \in Mergers : ~mergers[m].overlapped

\* C23: localStoreMerge is a read followed by a write with nothing held in
\* between: two merges of partial documents over disjoint keys into the same
\* key, run one after the other, leave a document with the keys of both,
\* and the last write always holds the keys of its merger.
C23_UnprotectedMerge ==
    BothMerged =>
        /\ \E m \in Mergers : Keeps(m)
        /\ (DisjointPartials /\ OneAfterTheOther) => \A m \in Mergers : Keeps(m)

\* The lost update: both merges done after overlapping reads, and the
\* stored document lacks the keys of one of them.
C23_Witness ==
    /\ BothMerged
    /\ DisjointPartials
    /\ \A m \in Mergers : mergers[m].new_data # <<>>
    /\ \E m \in Mergers : mergers[m].overlapped
    /\ \E m \in Mergers : DOMAIN mergers[m].new_data \cap DOMAIN Merged.items = {}

\* C24: a bot is constructed only from a configuration with every policy
\* section, so that no call of a decision function finds a section missing
\* or ends with the KeyError of a missing section.
C24_ConfigFailsFast ==
    decision.op # "none" =>
        /\ PolicyKeys \subseteq DOMAIN config
        /\ decision.out.exc # "KeyError"

\* The step of a handler at self.dismissNotification(...).
DismissStep == frame.pc = "dismissNotification" /\ frame' # frame

\* C25: a handler calls dismissNotification once and ends, so that an event
\* is dismissed at most once in a poll cycle; unless the remote call raised
\* a class the decorator does not name, which ends the run, the handler
\* completes as after a successful dismissal, whether or not the event was
\* dismissed, and the dispatch goes on with the next event of the batch.
C25_DismissOnce ==
    /\ [](\A k, l \in 1..Len(invoked) : k < l => invoked[k].pos < invoked[l].pos)
    /\ [][DismissStep =>
            /\ frame' = NoFrame
            /\ \/ /\ pc' = "terminated"
                  /\ runExc' \notin KnownCategories \cup {NoExc}
                  /\ inbox' = inbox
               \/ /\ pc' = pc
                  /\ idx' = idx + 1
                  /\ failed' = failed
                  /\ runExc' = runExc]_vars

\* The dismissal of the first event of a batch failed with a known category:
\* the event is still pending, its handler did not fail, and the handler of
\* the second event is in progress.
C25_Witness ==
    /\ pc = "dispatch"
    /\ idx = 2
    /\ frame # NoFrame
    /\ Routed(1)
    /\ 1 \notin failed
    /\ notifications[1].type = "reblog"
    /\ notifications[1].id \in dismissFailed
    /\ Pending(notifications[1].id)

\* What the follower check of the call returned or raised.
FollowerCheck ==
    MastoBot_isByFollower(decision.reads["isByFollower.getStatus"],
                          decision.reads["isFollower.getAccount"],
                          decision.reads["isFollower.account_relationships"],
                          decision.followed_by)
NoUsableFollowerResult == FollowerCheck.exc # NoExc \/ FollowerCheck.val = None

\* C28: with followers_only set, a call of shouldReblog or shouldFavorite
\* whose follower check gave no usable result (None after a suppressed
\* failure of a read, or an exception) does not return True: it returns
\* False or raises.
C28_FailClosed ==
    (/\ decision.op # "none"
     /\ SectionOf(decision.op).followers_only
     /\ NoUsableFollowerResult) =>
        \/ decision.out.exc # NoExc
        \/ decision.out = Returned("False")

\* The author follows the bot and the status passes the other gates, the
\* relationship read failed with a suppressed error, and the decision is
\* False.
C28_Witness ==
    /\ decision.op = "shouldReblog"
    /\ config.boosts.followers_only
    /\ decision.followed_by
    /\ decision.reads["isFollower.account_relationships"] = "MastodonNetworkError"
    /\ FollowerCheck = Returned(None)
    /\ decision.status.in_reply_to_id = None
    /\ decision.status.media_attachments = <<>>
    /\ decision.out = Returned("False")

\* C29: a call of shouldReblog, shouldFavorite, altTextTestPassed,
\* isParentStatus, isByFollower, containsMedia or containsAltText, whatever
\* it returns or raises, makes no call that writes to the remote service or
\* to the store, and leaves the pending notifications, the remote writes of
\* the handlers and the store as they were.
C29_ReadOnly ==
    [][decision' # decision =>
          /\ decision'.writes = {}
          /\ inbox' = inbox
          /\ frame'.writes = frame.writes
          /\ store' = store]_vars

\* altTextTestPassed has refused a status with an attachment without alt
\* text, and the store still holds its document.
C29_Witness ==
    /\ decision.op = "altTextTestPassed"
    /\ decision.out = Returned("False")
    /\ decision.writes = {}
    /\ DOMAIN store = {PhysicalKey(<<"n">>, <<"1">>)}

\* The decision of the four gates on the status and the relation of one
\* moment.
DecisionAt(moment) ==
    Returned(PyBool(GateSequence(config.boosts, moment.status, moment.followed_by)))

\* C30: the value shouldReblog returns while the status or the follower
\* relation changes is the decision of the four gates on the status and the
\* relation of one moment of the call; it is not True when every moment of
\* the call would have been refused.
C30_SnapshotConsistency ==
    decision.op # "none" =>
        \E i \in 1..2 : decision.out = DecisionAt(decision.history[i])

====
